---- MODULE Spec2Model ----
(***************************************************************************)
(* Model of the MVT builder of src/src/tile.rs: Tile, Layer and Feature.   *)
(*                                                                         *)
(* Rust values that are moved from owner to owner are modelled as objects *)
(* of a heap, named by the number create_layer gave them:                  *)
(*   heap      the Tile_Layer message of every live Layer                  *)
(*   detached  the Layers the caller holds as free-standing values         *)
(*   building  the Features in progress, keyed by the Layer each one owns  *)
(*   tiles     the Tiles: extent and the layer sequence of vec_tile        *)
(*   last      the last call made and what it returned                     *)
(*   nCreated, nFeatures, nTags   how many create_layer, into_feature and  *)
(*             add_tag_* calls were made (they bound the model)            *)
(*   origin    history: the tile whose create_layer made each live layer   *)
(*   tagCalls  history: for each live layer, the number of add_tag_* calls *)
(*             made on each of its features, in the order of into_feature  *)
(***************************************************************************)
EXTENDS Integers, Sequences, FiniteSets, TLC

VARIABLES heap, detached, building, tiles, last, nCreated, nFeatures, nTags,
          origin, tagCalls

vars == <<heap, detached, building, tiles, last, nCreated, nFeatures, nTags,
          origin, tagCalls>>

(* ---------------------------- bounds ----------------------------------- *)
\* Spec: calls of create_layer, into_feature and add_tag_*
MaxCreated == 2
MaxFeatures == 1
MaxTags == 1
\* SpecIds: calls of into_feature and add_tag_*
IdFeatures == 2
IdTags == 1
\* SpecTags: calls of into_feature and add_tag_*
TagFeatures == 2
TagTags == 2
\* SpecWrite: calls of create_layer, into_feature and add_tag_*
WriteCreated == 1
WriteFeatures == 1
WriteTags == 1
\* SpecTiles: calls of create_layer, into_feature and add_tag_*
PairCreated == 1
PairFeatures == 1
PairTags == 1
\* SpecStored: calls of create_layer, into_feature and add_tag_*, the ones that
\* built the stored layer included
StoredCreated == 2
StoredFeatures == 2
StoredTags == 2

(* ---------------------------- inputs ----------------------------------- *)
TileIds == {1}
Extents == {4096}
TilePair == {1, 2}
PairExtents == {2048, 4096}
Names == {"roads", "water"}
Keys == {"name", "kind"}
Ids == {0, 1}
Strs == {"highway"}
Nums == {1}
Bools == {TRUE}
GeomTypes == {"Point", "Linestring", "Polygon"}
Geoms == {<<9, 50, 34>>}
IoResults == {"ok", "err"}

(* ------------------------- generated messages -------------------------- *)
\* Tile_Value::new(): no variant set.
Tile_Value_new == [tag |-> "none", s |-> "", n |-> 0, b |-> FALSE]

set_string_value(v, x) == [v EXCEPT !.tag = "string", !.s = x]
set_double_value(v, x) == [v EXCEPT !.tag = "double", !.n = x]
set_float_value(v, x) == [v EXCEPT !.tag = "float", !.n = x]
set_int_value(v, x) == [v EXCEPT !.tag = "int", !.n = x]
set_uint_value(v, x) == [v EXCEPT !.tag = "uint", !.n = x]
set_sint_value(v, x) == [v EXCEPT !.tag = "sint", !.n = x]
set_bool_value(v, x) == [v EXCEPT !.tag = "bool", !.b = x]

\* Tile_Feature::new(): optional id unset, no tags, no geometry.
Tile_Feature_new ==
    [has_id |-> FALSE, id |-> 0, field_type |-> 0, geometry |-> <<>>, tags |-> <<>>]

\* The getter of the optional id: the field's default when it is unset.
get_id(f) == IF f.has_id THEN f.id ELSE 0

(* --------------------------- wire encoding ----------------------------- *)
\* The UTF-8 bytes of the strings of the model.
Utf8 ==
    [roads |-> <<114, 111, 97, 100, 115>>, water |-> <<119, 97, 116, 101, 114>>,
     name |-> <<110, 97, 109, 101>>, kind |-> <<107, 105, 110, 100>>,
     highway |-> <<104, 105, 103, 104, 119, 97, 121>>]

\* The little-endian IEEE 754 bytes of the numbers of the model.
Fixed32 == [x \in 0..2 |-> CASE x = 0 -> <<0, 0, 0, 0>>
                              [] x = 1 -> <<0, 0, 128, 63>>
                              [] x = 2 -> <<0, 0, 0, 64>>]

Fixed64 == [x \in 0..2 |-> CASE x = 0 -> <<0, 0, 0, 0, 0, 0, 0, 0>>
                              [] x = 1 -> <<0, 0, 0, 0, 0, 0, 240, 63>>
                              [] x = 2 -> <<0, 0, 0, 0, 0, 0, 0, 64>>]

\* The field numbers of the vector tile schema.
FieldNo ==
    [layers |-> 3,
     layer_name |-> 1, features |-> 2, keys |-> 3, values |-> 4, extent |-> 5,
     version |-> 15,
     id |-> 1, tags |-> 2, type |-> 3, geometry |-> 4,
     string_value |-> 1, float_value |-> 2, double_value |-> 3, int_value |-> 4,
     uint_value |-> 5, sint_value |-> 6, bool_value |-> 7]

\* The wire types: varint, 64-bit, length-delimited, 32-bit.
WireType == [varint |-> 0, fixed64 |-> 1, bytes |-> 2, fixed32 |-> 5]

RECURSIVE Varint(_)
\* The base-128 bytes of a number n >= 0, low group first.
Varint(n) == IF n < 128 THEN <<n>> ELSE <<(n % 128) + 128>> \o Varint(n \div 128)

ZigZag(n) == IF n >= 0 THEN 2 * n ELSE -2 * n - 1

Key(field, wire) == Varint(field * 8 + wire)

RECURSIVE Flatten(_)
\* The concatenation of a sequence of byte sequences.
Flatten(seqs) == IF seqs = <<>> THEN <<>> ELSE Head(seqs) \o Flatten(Tail(seqs))

Delimited(field, bytes) == Key(field, WireType.bytes) \o Varint(Len(bytes)) \o bytes

Packed(field, nums) ==
    IF nums = <<>> THEN <<>>
    ELSE Delimited(field, Flatten([i \in 1..Len(nums) |-> Varint(nums[i])]))

\* Tile_Value::write_to_with_cached_sizes
Tile_Value_write(v) ==
    CASE v.tag = "string" -> Delimited(FieldNo.string_value, Utf8[v.s])
      [] v.tag = "float" -> Key(FieldNo.float_value, WireType.fixed32) \o Fixed32[v.n]
      [] v.tag = "double" -> Key(FieldNo.double_value, WireType.fixed64) \o Fixed64[v.n]
      [] v.tag = "int" -> Key(FieldNo.int_value, WireType.varint) \o Varint(v.n)
      [] v.tag = "uint" -> Key(FieldNo.uint_value, WireType.varint) \o Varint(v.n)
      [] v.tag = "sint" -> Key(FieldNo.sint_value, WireType.varint) \o Varint(ZigZag(v.n))
      [] v.tag = "bool" -> Key(FieldNo.bool_value, WireType.varint) \o <<IF v.b THEN 1 ELSE 0>>
      [] OTHER -> <<>>

\* Tile_Feature::write_to_with_cached_sizes
Tile_Feature_write(f) ==
    (IF f.has_id THEN Key(FieldNo.id, WireType.varint) \o Varint(f.id) ELSE <<>>)
    \o Packed(FieldNo.tags, f.tags)
    \o (IF f.field_type # 0
         THEN Key(FieldNo.type, WireType.varint) \o Varint(f.field_type) ELSE <<>>)
    \o Packed(FieldNo.geometry, f.geometry)

\* Tile_Layer::write_to_with_cached_sizes
Tile_Layer_write(layer) ==
    Key(FieldNo.version, WireType.varint) \o Varint(layer.version)
    \o Delimited(FieldNo.layer_name, Utf8[layer.name])
    \o Flatten([i \in 1..Len(layer.features) |->
                  Delimited(FieldNo.features, Tile_Feature_write(layer.features[i]))])
    \o Flatten([i \in 1..Len(layer.keys) |->
                  Delimited(FieldNo.keys, Utf8[layer.keys[i]])])
    \o Flatten([i \in 1..Len(layer.values) |->
                  Delimited(FieldNo.values, Tile_Value_write(layer.values[i]))])
    \o Key(FieldNo.extent, WireType.varint) \o Varint(layer.extent)

\* VecTile::write_to: the bytes of a tile whose layers are the given messages.
VecTile_write(layers) ==
    Flatten([i \in 1..Len(layers) |-> Delimited(FieldNo.layers, Tile_Layer_write(layers[i]))])

RECURSIVE VarintSize(_)
\* rt::compute_raw_varint_size
VarintSize(n) == IF n < 128 THEN 1 ELSE 1 + VarintSize(n \div 128)

RECURSIVE Sum(_)
Sum(nums) == IF nums = <<>> THEN 0 ELSE Head(nums) + Sum(Tail(nums))

KeySize(field) == VarintSize(field * 8)

DelimitedSize(field, len) == KeySize(field) + VarintSize(len) + len

PackedSize(field, nums) ==
    IF nums = <<>> THEN 0
    ELSE DelimitedSize(field, Sum([i \in 1..Len(nums) |-> VarintSize(nums[i])]))

\* Tile_Value::compute_size
Tile_Value_compute_size(v) ==
    CASE v.tag = "string" -> DelimitedSize(FieldNo.string_value, Len(Utf8[v.s]))
      [] v.tag = "float" -> KeySize(FieldNo.float_value) + 4
      [] v.tag = "double" -> KeySize(FieldNo.double_value) + 8
      [] v.tag = "int" -> KeySize(FieldNo.int_value) + VarintSize(v.n)
      [] v.tag = "uint" -> KeySize(FieldNo.uint_value) + VarintSize(v.n)
      [] v.tag = "sint" -> KeySize(FieldNo.sint_value) + VarintSize(ZigZag(v.n))
      [] v.tag = "bool" -> KeySize(FieldNo.bool_value) + 1
      [] OTHER -> 0

\* Tile_Feature::compute_size
Tile_Feature_compute_size(f) ==
    (IF f.has_id THEN KeySize(FieldNo.id) + VarintSize(f.id) ELSE 0)
    + PackedSize(FieldNo.tags, f.tags)
    + (IF f.field_type # 0 THEN KeySize(FieldNo.type) + VarintSize(f.field_type) ELSE 0)
    + PackedSize(FieldNo.geometry, f.geometry)

\* Tile_Layer::compute_size
Tile_Layer_compute_size(layer) ==
    KeySize(FieldNo.version) + VarintSize(layer.version)
    + DelimitedSize(FieldNo.layer_name, Len(Utf8[layer.name]))
    + Sum([i \in 1..Len(layer.features) |->
              DelimitedSize(FieldNo.features, Tile_Feature_compute_size(layer.features[i]))])
    + Sum([i \in 1..Len(layer.keys) |->
              DelimitedSize(FieldNo.keys, Len(Utf8[layer.keys[i]]))])
    + Sum([i \in 1..Len(layer.values) |->
              DelimitedSize(FieldNo.values, Tile_Value_compute_size(layer.values[i]))])
    + KeySize(FieldNo.extent) + VarintSize(layer.extent)

\* VecTile::compute_size
VecTile_compute_size(layers) ==
    Sum([i \in 1..Len(layers) |->
            DelimitedSize(FieldNo.layers, Tile_Layer_compute_size(layers[i]))])

(* ------------------------------ Layer ---------------------------------- *)
\* Layer::new that sets the usual extent and not the one given.
Layer_new_fixed_extent(name, extent) ==
    [version |-> 2, name |-> name, extent |-> 4096,
     keys |-> <<>>, values |-> <<>>, features |-> <<>>]

Layer_new(name, extent) ==
    [version |-> 2, name |-> name, extent |-> extent,
     keys |-> <<>>, values |-> <<>>, features |-> <<>>]

num_features(l) == Len(heap[l].features)

\* Iterator::position: the first index (from 0) whose element equals x.
Position(seq, x) ==
    IF \E i \in 1..Len(seq) : seq[i] = x
    THEN (CHOOSE i \in 1..Len(seq) : seq[i] = x /\ \A j \in 1..(i - 1) : seq[j] # x) - 1
    ELSE -1

\* key_pos that never finds the key: it is always added as the last key.
key_pos_always_push(layer, key) ==
    [layer |-> [layer EXCEPT !.keys = Append(@, key)], pos |-> Len(layer.keys) + 1 - 1]

\* key_pos that adds a new key as the first key (insert(0, ..) for push).
key_pos_push_front(layer, key) ==
    IF Position(layer.keys, key) >= 0
    THEN [layer |-> layer, pos |-> Position(layer.keys, key)]
    ELSE [layer |-> [layer EXCEPT !.keys = <<key>> \o @], pos |-> 0]

\* key_pos: the layer's keys after the call, and the index returned.
key_pos(layer, key) ==
    IF Position(layer.keys, key) >= 0
    THEN [layer |-> layer, pos |-> Position(layer.keys, key)]
    ELSE [layer |-> [layer EXCEPT !.keys = Append(@, key)],
          pos |-> Len(layer.keys) + 1 - 1]

\* The payload of a value, without its variant.
Payload(value) == [s |-> value.s, n |-> value.n, b |-> value.b]

\* val_pos that compares payloads and not variants.
val_pos_by_payload(layer, value) ==
    LET payloads == [i \in 1..Len(layer.values) |-> Payload(layer.values[i])]
    IN IF Position(payloads, Payload(value)) >= 0
       THEN [layer |-> layer, pos |-> Position(payloads, Payload(value))]
       ELSE [layer |-> [layer EXCEPT !.values = Append(@, value)],
             pos |-> Len(layer.values) + 1 - 1]

\* val_pos that returns the length after the push, without the - 1.
val_pos_past_end(layer, value) ==
    IF Position(layer.values, value) >= 0
    THEN [layer |-> layer, pos |-> Position(layer.values, value)]
    ELSE [layer |-> [layer EXCEPT !.values = Append(@, value)],
          pos |-> Len(layer.values) + 1]

\* val_pos: the layer's values after the call, and the index returned.
val_pos(layer, value) ==
    IF Position(layer.values, value) >= 0
    THEN [layer |-> layer, pos |-> Position(layer.values, value)]
    ELSE [layer |-> [layer EXCEPT !.values = Append(@, value)],
          pos |-> Len(layer.values) + 1 - 1]

GeomTp(g) ==
    CASE g = "Point" -> 1
      [] g = "Linestring" -> 2
      [] g = "Polygon" -> 3

\* The record of a call: what was called, on what, with what, and its result.
Call(op, res, l, t) ==
    [op |-> op, res |-> res, lid |-> l, tile |-> t,
     key |-> "", val |-> Tile_Value_new, id |-> 0, inner |-> "", flush |-> "",
     name |-> "", size |-> 0]

(* ------------------------------- Init ---------------------------------- *)
Tile_new(extent) == [extent |-> extent, layers |-> <<>>]

Init ==
    /\ \E e \in Extents : tiles = [t \in TileIds |-> Tile_new(e)]
    /\ heap = <<>>
    /\ detached = {}
    /\ building = <<>>
    /\ last = Call("new", "ok", 0, 0)
    /\ nCreated = 0
    /\ nFeatures = 0
    /\ nTags = 0
    /\ origin = <<>>
    /\ tagCalls = <<>>

\* The state after two calls of Tile::new, each with an extent of its own.
InitTiles ==
    /\ \E e \in [TilePair -> PairExtents] : tiles = [t \in TilePair |-> Tile_new(e[t])]
    /\ heap = <<>>
    /\ detached = {}
    /\ building = <<>>
    /\ last = Call("new", "ok", 0, 0)
    /\ nCreated = 0
    /\ nFeatures = 0
    /\ nTags = 0
    /\ origin = <<>>
    /\ tagCalls = <<>>

\* The state after Tile::new(extent) and one create_layer(name) on that tile.
InitLayer(names) ==
    /\ \E e \in Extents, name \in names :
          /\ tiles = [t \in TileIds |-> Tile_new(e)]
          /\ heap = (1 :> Layer_new(name, e))
    /\ detached = {1}
    /\ building = <<>>
    /\ last = Call("create_layer", "ok", 1, 1)
    /\ nCreated = 1
    /\ nFeatures = 0
    /\ nTags = 0
    /\ origin = (1 :> 1)
    /\ tagCalls = (1 :> <<>>)

(* ------------------------------ Tile ----------------------------------- *)
num_layers(t) == Len(tiles[t].layers)

\* create_layer that takes the extent of the first tile, not of the tile called.
create_layer_first_extent(t, name) ==
    /\ nCreated' = nCreated + 1
    /\ heap' = (nCreated + 1 :> Layer_new(name, tiles[1].extent)) @@ heap
    /\ detached' = detached \cup {nCreated + 1}
    /\ last' = [Call("create_layer", "ok", nCreated + 1, t) EXCEPT !.name = name]
    /\ origin' = (nCreated + 1 :> t) @@ origin
    /\ tagCalls' = (nCreated + 1 :> <<>>) @@ tagCalls
    /\ UNCHANGED <<building, tiles, nFeatures, nTags>>

create_layer(t, name) ==
    /\ nCreated' = nCreated + 1
    /\ heap' = (nCreated + 1 :> Layer_new(name, tiles[t].extent)) @@ heap
    /\ detached' = detached \cup {nCreated + 1}
    /\ last' = [Call("create_layer", "ok", nCreated + 1, t) EXCEPT !.name = name]
    /\ origin' = (nCreated + 1 :> t) @@ origin
    /\ tagCalls' = (nCreated + 1 :> <<>>) @@ tagCalls
    /\ UNCHANGED <<building, tiles, nFeatures, nTags>>

\* The layer value goes out of scope: its storage is released.
Drop(h, l) == [x \in DOMAIN h \ {l} |-> h[x]]

\* HasName with the comparison inverted (!= for ==).
HasNameInverted(t, name) ==
    \E i \in 1..Len(tiles[t].layers) : heap[tiles[t].layers[i]].name # name

\* any(|n| n.get_name() == layer.layer.get_name())
HasName(t, name) ==
    \E i \in 1..Len(tiles[t].layers) : heap[tiles[t].layers[i]].name = name

\* add_layer that hands a rejected layer back to the caller instead of dropping it.
add_layer_handing_back(t, l) ==
    /\ l \in detached
    /\ IF HasName(t, heap[l].name)
       THEN /\ last' = Call("add_layer", "DuplicateName", l, t)
            /\ UNCHANGED <<tiles, detached>>
       ELSE /\ tiles' = [tiles EXCEPT ![t].layers = Append(@, l)]
            /\ detached' = detached \ {l}
            /\ last' = Call("add_layer", "ok", l, t)
    /\ UNCHANGED <<heap, building, nCreated, nFeatures, nTags, origin, tagCalls>>

\* add_layer that inserts the layer in front (insert(0, ..) for push).
add_layer_in_front(t, l) ==
    /\ l \in detached
    /\ detached' = detached \ {l}
    /\ IF HasName(t, heap[l].name)
       THEN /\ last' = Call("add_layer", "DuplicateName", l, t)
            /\ heap' = Drop(heap, l)
            /\ origin' = Drop(origin, l)
            /\ tagCalls' = Drop(tagCalls, l)
            /\ UNCHANGED tiles
       ELSE /\ tiles' = [tiles EXCEPT ![t].layers = <<l>> \o @]
            /\ last' = Call("add_layer", "ok", l, t)
            /\ UNCHANGED <<heap, origin, tagCalls>>
    /\ UNCHANGED <<building, nCreated, nFeatures, nTags>>

\* add_layer that stores a copy and leaves the caller's layer usable.
add_layer_keeping_handle(t, l) ==
    /\ l \in detached
    /\ IF HasName(t, heap[l].name)
       THEN /\ last' = Call("add_layer", "DuplicateName", l, t)
            /\ detached' = detached \ {l}
            /\ heap' = Drop(heap, l)
            /\ origin' = Drop(origin, l)
            /\ tagCalls' = Drop(tagCalls, l)
            /\ UNCHANGED tiles
       ELSE /\ tiles' = [tiles EXCEPT ![t].layers = Append(@, l)]
            /\ last' = Call("add_layer", "ok", l, t)
            /\ UNCHANGED <<heap, detached, origin, tagCalls>>
    /\ UNCHANGED <<building, nCreated, nFeatures, nTags>>

add_layer(t, l) ==
    /\ l \in detached
    /\ detached' = detached \ {l}
    /\ IF HasName(t, heap[l].name)
       THEN /\ last' = Call("add_layer", "DuplicateName", l, t)
            /\ heap' = Drop(heap, l)
            /\ origin' = Drop(origin, l)
            /\ tagCalls' = Drop(tagCalls, l)
            /\ UNCHANGED tiles
       ELSE /\ tiles' = [tiles EXCEPT ![t].layers = Append(@, l)]
            /\ last' = Call("add_layer", "ok", l, t)
            /\ UNCHANGED <<heap, origin, tagCalls>>
    /\ UNCHANGED <<building, nCreated, nFeatures, nTags>>

\* What write_to returns, given what the message encode and the flush returned:
\* the result of the encode is discarded, the flush alone decides.
write_to_result(inner, flush) == IF flush = "err" THEN "Protobuf" ELSE "ok"

write_to(t, inner, flush) ==
    /\ last' = [Call("write_to", write_to_result(inner, flush), 0, t)
                   EXCEPT !.inner = inner, !.flush = flush]
    /\ UNCHANGED <<heap, detached, building, tiles, nCreated, nFeatures, nTags,
                   origin, tagCalls>>

\* The layer messages of tile t, in order.
VecTile(t) == [i \in 1..Len(tiles[t].layers) |-> heap[tiles[t].layers[i]]]

\* to_bytes that starts from a buffer filled to the size (vec![0; n]) and not
\* from an empty one of that capacity.
to_bytes_filled(t) ==
    LET v == [i \in 1..VecTile_compute_size(VecTile(t)) |-> 0]
        written == v \o VecTile_write(VecTile(t))
    IN /\ last' = [Call("to_bytes", write_to_result("ok", "ok"), 0, t)
                      EXCEPT !.inner = "ok", !.flush = "ok", !.size = Len(written)]
       /\ UNCHANGED <<heap, detached, building, tiles, nCreated, nFeatures, nTags,
                      origin, tagCalls>>

\* to_bytes writes into an empty Vec, which accepts every write, and returns it;
\* size is the length of the Vec returned.
to_bytes(t) ==
    LET v == <<>>
        written == v \o VecTile_write(VecTile(t))
    IN
    /\ last' = [Call("to_bytes", write_to_result("ok", "ok"), 0, t)
                   EXCEPT !.inner = "ok", !.flush = "ok", !.size = Len(written)]
    /\ UNCHANGED <<heap, detached, building, tiles, nCreated, nFeatures, nTags,
                   origin, tagCalls>>

compute_size(t) ==
    /\ last' = [Call("compute_size", "ok", 0, t)
                   EXCEPT !.size = VecTile_compute_size(VecTile(t))]
    /\ UNCHANGED <<heap, detached, building, tiles, nCreated, nFeatures, nTags,
                   origin, tagCalls>>

(* ----------------------------- Feature --------------------------------- *)
\* into_feature that leaves the caller's layer handle in place (a copy, no move).
into_feature_keeping_layer(l, g, geom) ==
    /\ l \in detached
    /\ nFeatures' = nFeatures + 1
    /\ building' = (l :> [Tile_Feature_new EXCEPT !.field_type = GeomTp(g),
                                                  !.geometry = geom]) @@ building
    /\ last' = Call("into_feature", "ok", l, 0)
    /\ tagCalls' = [tagCalls EXCEPT ![l] = Append(@, 0)]
    /\ UNCHANGED <<heap, detached, tiles, nCreated, nTags, origin>>

into_feature(l, g, geom) ==
    /\ l \in detached
    /\ nFeatures' = nFeatures + 1
    /\ detached' = detached \ {l}
    /\ building' = (l :> [Tile_Feature_new EXCEPT !.field_type = GeomTp(g),
                                                  !.geometry = geom]) @@ building
    /\ last' = Call("into_feature", "ok", l, 0)
    /\ tagCalls' = [tagCalls EXCEPT ![l] = Append(@, 0)]
    /\ UNCHANGED <<heap, tiles, nCreated, nTags, origin>>

\* into_layer that puts the feature in front of the list (insert(0, ..) for push).
into_layer_in_front(l) ==
    /\ l \in DOMAIN building
    /\ heap' = [heap EXCEPT ![l].features = <<building[l]>> \o @]
    /\ building' = Drop(building, l)
    /\ detached' = detached \cup {l}
    /\ last' = Call("into_layer", "ok", l, 0)
    /\ UNCHANGED <<tiles, nCreated, nFeatures, nTags, origin, tagCalls>>

\* into_layer that hands the layer back without the feature.
into_layer_without_feature(l) ==
    /\ l \in DOMAIN building
    /\ heap' = heap
    /\ building' = Drop(building, l)
    /\ detached' = detached \cup {l}
    /\ last' = Call("into_layer", "ok", l, 0)
    /\ UNCHANGED <<tiles, nCreated, nFeatures, nTags, origin, tagCalls>>

into_layer(l) ==
    /\ l \in DOMAIN building
    /\ heap' = [heap EXCEPT ![l].features = Append(@, building[l])]
    /\ building' = Drop(building, l)
    /\ detached' = detached \cup {l}
    /\ last' = Call("into_layer", "ok", l, 0)
    /\ UNCHANGED <<tiles, nCreated, nFeatures, nTags, origin, tagCalls>>

\* HasId with the comparison inverted (!= for ==).
HasIdInverted(layer, id) ==
    \E i \in 1..Len(layer.features) : get_id(layer.features[i]) # id

\* any(|f| f.get_id() == id) over the features committed to the layer
HasId(layer, id) ==
    \E i \in 1..Len(layer.features) : get_id(layer.features[i]) = id

\* set_id that records the id before it checks it.
set_id_before_check(l, id) ==
    /\ l \in DOMAIN building
    /\ building' = [building EXCEPT ![l].has_id = TRUE, ![l].id = id]
    /\ IF HasId(heap[l], id)
       THEN last' = [Call("set_id", "DuplicateId", l, 0) EXCEPT !.id = id]
       ELSE last' = [Call("set_id", "ok", l, 0) EXCEPT !.id = id]
    /\ UNCHANGED <<heap, detached, tiles, nCreated, nFeatures, nTags, origin, tagCalls>>

set_id(l, id) ==
    /\ l \in DOMAIN building
    /\ IF HasId(heap[l], id)
       THEN /\ last' = [Call("set_id", "DuplicateId", l, 0) EXCEPT !.id = id]
            /\ UNCHANGED building
       ELSE /\ building' = [building EXCEPT ![l].has_id = TRUE, ![l].id = id]
            /\ last' = [Call("set_id", "ok", l, 0) EXCEPT !.id = id]
    /\ UNCHANGED <<heap, detached, tiles, nCreated, nFeatures, nTags, origin, tagCalls>>

\* add_tag that pushes the value index before the key index.
add_tag_value_first(feature, layer, key, value) ==
    LET k == key_pos(layer, key)
        v == val_pos(k.layer, value)
        f1 == [feature EXCEPT !.tags = Append(@, v.pos)]
        f2 == [f1 EXCEPT !.tags = Append(@, k.pos)]
    IN [feature |-> f2, layer |-> v.layer]

\* add_tag that records the key index only.
add_tag_key_only(feature, layer, key, value) ==
    LET k == key_pos(layer, key)
        f1 == [feature EXCEPT !.tags = Append(@, k.pos)]
        v == val_pos(k.layer, value)
    IN [feature |-> f1, layer |-> v.layer]

\* add_tag on a feature and the layer it owns: both after the call.
add_tag(feature, layer, key, value) ==
    LET k == key_pos(layer, key)
        f1 == [feature EXCEPT !.tags = Append(@, k.pos)]
        v == val_pos(k.layer, value)
        f2 == [f1 EXCEPT !.tags = Append(@, v.pos)]
    IN [feature |-> f2, layer |-> v.layer]

AddTagCall(op, l, key, value) ==
    /\ l \in DOMAIN building
    /\ nTags' = nTags + 1
    /\ building' = [building EXCEPT ![l] = add_tag(building[l], heap[l], key, value).feature]
    /\ heap' = [heap EXCEPT ![l] = add_tag(building[l], heap[l], key, value).layer]
    /\ last' = [Call(op, "ok", l, 0) EXCEPT !.key = key, !.val = value]
    /\ tagCalls' = [tagCalls EXCEPT ![l][Len(tagCalls[l])] = @ + 1]
    /\ UNCHANGED <<detached, tiles, nCreated, nFeatures, origin>>

add_tag_string(l, key, val) ==
    AddTagCall("add_tag_string", l, key, set_string_value(Tile_Value_new, val))

add_tag_double(l, key, val) ==
    AddTagCall("add_tag_double", l, key, set_double_value(Tile_Value_new, val))

add_tag_float(l, key, val) ==
    AddTagCall("add_tag_float", l, key, set_float_value(Tile_Value_new, val))

add_tag_int(l, key, val) ==
    AddTagCall("add_tag_int", l, key, set_int_value(Tile_Value_new, val))

add_tag_uint(l, key, val) ==
    AddTagCall("add_tag_uint", l, key, set_uint_value(Tile_Value_new, val))

add_tag_sint(l, key, val) ==
    AddTagCall("add_tag_sint", l, key, set_sint_value(Tile_Value_new, val))

add_tag_bool(l, key, val) ==
    AddTagCall("add_tag_bool", l, key, set_bool_value(Tile_Value_new, val))

(* ------------------------------- Next ---------------------------------- *)
\* create_layer, at most maxC times.
TileOps(maxC, names) ==
    \E t \in DOMAIN tiles, name \in names : nCreated < maxC /\ create_layer(t, name)

\* Every other operation of the builder, with its inputs drawn from the given
\* sets and at most maxF into_feature and maxT add_tag_* calls.
LayerOps(maxF, maxT, geoms, ids, keys, ios) ==
    \/ \E t \in DOMAIN tiles, l \in detached : add_layer(t, l)
    \/ \E t \in DOMAIN tiles, inner \in ios, flush \in ios : write_to(t, inner, flush)
    \/ \E t \in DOMAIN tiles : to_bytes(t)
    \/ \E t \in DOMAIN tiles : compute_size(t)
    \/ \E l \in detached, g \in geoms, geom \in Geoms :
           nFeatures < maxF /\ into_feature(l, g, geom)
    \/ \E l \in DOMAIN building : into_layer(l)
    \/ \E l \in DOMAIN building, id \in ids : set_id(l, id)
    \/ \E l \in DOMAIN building, key \in keys, val \in Strs :
           nTags < maxT /\ add_tag_string(l, key, val)
    \/ \E l \in DOMAIN building, key \in keys, val \in Nums :
           nTags < maxT /\ add_tag_double(l, key, val)
    \/ \E l \in DOMAIN building, key \in keys, val \in Nums :
           nTags < maxT /\ add_tag_float(l, key, val)
    \/ \E l \in DOMAIN building, key \in keys, val \in Nums :
           nTags < maxT /\ add_tag_int(l, key, val)
    \/ \E l \in DOMAIN building, key \in keys, val \in Nums :
           nTags < maxT /\ add_tag_uint(l, key, val)
    \/ \E l \in DOMAIN building, key \in keys, val \in Nums :
           nTags < maxT /\ add_tag_sint(l, key, val)
    \/ \E l \in DOMAIN building, key \in keys, val \in Bools :
           nTags < maxT /\ add_tag_bool(l, key, val)

\* Tiles and their layers: several layers, each with little in it.
Next ==
    \/ TileOps(MaxCreated, Names)
    \/ LayerOps(MaxFeatures, MaxTags, {"Point"}, {0}, {"name"}, {"ok"})

Spec == Init /\ [][Next]_vars

\* Feature ids: one layer, several features, every id.
NextIds == LayerOps(IdFeatures, IdTags, {"Point", "Polygon"}, Ids, {"name"}, {"ok"})

SpecIds == InitLayer({"roads"}) /\ [][NextIds]_vars

\* Tags: one layer, both keys with every variant of value.
NextTags == LayerOps(TagFeatures, TagTags, {"Linestring"}, {1}, Keys, {"ok"})

SpecTags == InitLayer({"roads"}) /\ [][NextTags]_vars

\* Serialization: the encode and the flush each succeed or fail.
NextWrite ==
    \/ TileOps(WriteCreated, {"water"})
    \/ LayerOps(WriteFeatures, WriteTags, GeomTypes, {1}, {"kind"}, IoResults)

SpecWrite == Init /\ [][NextWrite]_vars

\* Two tiles, of equal or different extents, and layers created by either.
NextTiles ==
    \/ TileOps(PairCreated, {"roads"})
    \/ LayerOps(PairFeatures, PairTags, {"Polygon"}, {0}, {"name"}, {"ok"})

SpecTiles == InitTiles /\ [][NextTiles]_vars

\* The state after Tile::new(extent), create_layer("roads"), into_feature,
\* add_tag_string("name", "highway"), into_layer and add_layer: one stored layer
\* with one tagged feature.
InitStored ==
    /\ \E e \in Extents, geom \in Geoms :
          LET f == [Tile_Feature_new EXCEPT !.field_type = GeomTp("Point"),
                                            !.geometry = geom]
              r == add_tag(f, Layer_new("roads", e), "name", set_string_value(Tile_Value_new, "highway"))
          IN /\ heap = (1 :> [r.layer EXCEPT !.features = Append(@, r.feature)])
             /\ tiles = [t \in TileIds |-> [Tile_new(e) EXCEPT !.layers = <<1>>]]
    /\ detached = {}
    /\ building = <<>>
    /\ last = Call("add_layer", "ok", 1, 1)
    /\ nCreated = 1
    /\ nFeatures = 1
    /\ nTags = 1
    /\ origin = (1 :> 1)
    /\ tagCalls = (1 :> <<1>>)

\* A tile that already stores a layer, and one more layer built next to it.
NextStored ==
    \/ TileOps(StoredCreated, Names)
    \/ LayerOps(StoredFeatures, StoredTags, {"Point"}, {0}, {"kind"}, {"ok"})

SpecStored == InitStored /\ [][NextStored]_vars

\* A step that is a call of op.
IsCall(op) == last'.op = op /\ vars' # vars

(* ------------------------------ claims --------------------------------- *)
\* The names of the layers stored in tile t, in order.
StoredNames(t) == [i \in 1..Len(tiles[t].layers) |-> heap[tiles[t].layers[i]].name]

\* C1: no two layers of a tile's layer sequence have the same name, whatever
\* calls were made and whether they succeeded or failed.
C1_UniqueLayerNames ==
    \A t \in DOMAIN tiles : \A i, j \in 1..Len(tiles[t].layers) :
        i # j => StoredNames(t)[i] # StoredNames(t)[j]

\* C1 witness: a tile that holds two layers, the second added after a feature
\* was committed to a layer.
C1_Witness ==
    \E t \in DOMAIN tiles :
        /\ Len(tiles[t].layers) = 2
        /\ \E i \in 1..2 : Len(heap[tiles[t].layers[i]].features) = 1

C3_AddLayer ==
    [][IsCall("add_layer") =>
          LET t == last'.tile
              l == last'.lid
              dup == \E i \in 1..Len(tiles[t].layers) :
                         StoredNames(t)[i] = heap[l].name
          IN /\ last'.res = (IF dup THEN "DuplicateName" ELSE "ok")
             /\ dup => /\ tiles' = tiles
                        /\ \A i \in 1..Len(tiles[t].layers) :
                              heap'[tiles[t].layers[i]] = heap[tiles[t].layers[i]]
             /\ ~dup => /\ tiles' = [tiles EXCEPT ![t].layers = Append(@, l)]
                         /\ Len(tiles'[t].layers) = Len(tiles[t].layers) + 1
                         /\ heap' = heap]_vars

\* C3 witness: a layer was appended to a tile that already held one.
C3_Witness ==
    /\ last.op = "add_layer"
    /\ last.res = "ok"
    /\ Len(tiles[last.tile].layers) = 2
    /\ tiles[last.tile].layers[2] = last.lid

\* Some feature committed to layer has its id set, to id.
CommittedWithId(layer, id) ==
    \E i \in 1..Len(layer.features) :
        layer.features[i].has_id /\ layer.features[i].id = id

\* C4 as claimed: set_id(id) returns DuplicateId if and only if a feature
\* committed to the owned layer has an id set that equals id; in every other
\* case it succeeds and the feature's id becomes id.
C4_SetIdFailsOnlyOnSetId ==
    [][IsCall("set_id") =>
          LET l == last'.lid
              dup == CommittedWithId(heap[l], last'.id)
          IN /\ last'.res = (IF dup THEN "DuplicateId" ELSE "ok")
             /\ ~dup => /\ building'[l].has_id
                         /\ building'[l].id = last'.id]_vars

\* C5: in every layer, no two committed features both have an id set with the
\* same value.
C5_UniqueFeatureIds ==
    \A l \in DOMAIN heap : \A i, j \in 1..Len(heap[l].features) :
        (i # j /\ heap[l].features[i].has_id /\ heap[l].features[j].has_id)
            => heap[l].features[i].id # heap[l].features[j].id

\* C5 witness: a layer with two committed features that both have an id set.
C5_Witness ==
    \E l \in DOMAIN heap :
        /\ Len(heap[l].features) = 2
        /\ heap[l].features[1].has_id
        /\ heap[l].features[2].has_id

\* C6: a set_id that fails with DuplicateId changes nothing: the feature (id,
\* tags, geometry, geometry type) and its layer (keys, values, features) are as
\* before, and the feature is still in progress, which is all that set_id,
\* add_tag_* and into_layer ask for.
C6_FailedSetIdChangesNothing ==
    [][(IsCall("set_id") /\ last'.res = "DuplicateId") =>
          /\ last'.lid \in DOMAIN building
          /\ last'.lid \in DOMAIN building'
          /\ building' = building
          /\ heap' = heap
          /\ detached' = detached
          /\ tiles' = tiles]_vars

\* C6 witness: set_id failed on a feature that had an id set and a tag added.
C6_Witness ==
    /\ last.op = "set_id"
    /\ last.res = "DuplicateId"
    /\ building[last.lid].has_id
    /\ building[last.lid].id # last.id
    /\ Len(building[last.lid].tags) = 2

\* The variant each add_tag_* method wraps its value in.
AddTagOps == {"add_tag_string", "add_tag_double", "add_tag_float", "add_tag_int",
              "add_tag_uint", "add_tag_sint", "add_tag_bool"}

Variant(op) ==
    CASE op = "add_tag_string" -> "string"
      [] op = "add_tag_double" -> "double"
      [] op = "add_tag_float" -> "float"
      [] op = "add_tag_int" -> "int"
      [] op = "add_tag_uint" -> "uint"
      [] op = "add_tag_sint" -> "sint"
      [] op = "add_tag_bool" -> "bool"

IsAddTag == last'.op \in AddTagOps /\ vars' # vars

NoDuplicates(seq) == \A i, j \in 1..Len(seq) : i # j => seq[i] # seq[j]

C8_AddTagAppendsOnePair ==
    [][IsAddTag =>
          LET l == last'.lid
              old == building[l].tags
              new == building'[l].tags
              kidx == new[Len(new) - 1]
              vidx == new[Len(new)]
          IN /\ Len(new) = Len(old) + 2
             /\ SubSeq(new, 1, Len(old)) = old
             /\ kidx + 1 \in 1..Len(heap'[l].keys)
             /\ vidx + 1 \in 1..Len(heap'[l].values)
             /\ heap'[l].keys[kidx + 1] = last'.key
             /\ heap'[l].values[vidx + 1] = last'.val
             /\ heap'[l].values[vidx + 1].tag = Variant(last'.op)
             /\ heap'[l].features = heap[l].features]_vars

\* C8 witness: a feature carries the same key twice, as two pairs.
C8_Witness ==
    /\ last.op \in AddTagOps
    /\ Len(building[last.lid].tags) = 4
    /\ building[last.lid].tags[1] = building[last.lid].tags[3]
    /\ building[last.lid].tags[2] # building[last.lid].tags[4]

\* C9: a value is never resolved to a dictionary entry of another variant: an
\* add_tag_* call returns the index of no such entry, leaves every such entry
\* as it is, and when no entry has both its variant and its payload it appends
\* a new entry, whatever payloads the other variants hold.
C9_VariantsAreNotMerged ==
    [][IsAddTag =>
          LET l == last'.lid
              val == last'.val
              old == heap[l].values
              new == heap'[l].values
              vidx == building'[l].tags[Len(building'[l].tags)]
          IN /\ \A i \in 1..Len(old) :
                    old[i].tag # val.tag => (vidx # i - 1 /\ new[i] = old[i])
             /\ (\A i \in 1..Len(old) : old[i].tag # val.tag \/ Payload(old[i]) # Payload(val))
                    => (new = Append(old, val) /\ vidx = Len(old))]_vars

\* C9 witness: a layer whose value dictionary holds the same payload under two
\* variants, each referenced by its own tag pair.
C9_Witness ==
    \E l \in DOMAIN building :
        /\ Len(heap[l].values) = 2
        /\ Payload(heap[l].values[1]) = Payload(heap[l].values[2])
        /\ heap[l].values[1].tag # heap[l].values[2].tag
        /\ Len(building[l].tags) = 4
        /\ building[l].tags[2] = 0
        /\ building[l].tags[4] = 1

\* C10 as claimed: write_to returns an error whenever the message encode or
\* the flush failed, and success only when both succeeded.
C10_WriteToReturnsEveryFailure ==
    last.op = "write_to" =>
        (last.res = "Protobuf" <=> (last.inner = "err" \/ last.flush = "err"))

\* The places of the tiles' layer sequences, as pairs <<tile, index>>.
Places == UNION {{<<t, i>> : i \in 1..Len(tiles[t].layers)} : t \in DOMAIN tiles}

\* The number of handles through which layer l is reachable.
Holders(l) ==
    (IF l \in detached THEN 1 ELSE 0)
    + (IF l \in DOMAIN building THEN 1 ELSE 0)
    + Cardinality({p \in Places : tiles[p[1]].layers[p[2]] = l})

\* C11: every live layer is reachable through exactly one handle: the caller's
\* detached value, one feature in progress, or one place of one tile; every
\* handle leads to a live layer; into_feature, into_layer and a successful
\* add_layer each leave the layer with its new owner only.
C11_OneOwner ==
    /\ \A l \in DOMAIN heap : Holders(l) = 1
    /\ detached \subseteq DOMAIN heap
    /\ DOMAIN building \subseteq DOMAIN heap
    /\ \A p \in Places : tiles[p[1]].layers[p[2]] \in DOMAIN heap
    /\ last.op = "into_feature" => last.lid \in DOMAIN building
    /\ last.op = "into_layer" => last.lid \in detached
    /\ (last.op = "add_layer" /\ last.res = "ok") =>
           \E i \in 1..Len(tiles[last.tile].layers) : tiles[last.tile].layers[i] = last.lid

\* C11 witness: a layer that was detached, then owned by a feature, then
\* detached again, is now stored in a tile, while the caller holds another.
C11_Witness ==
    /\ last.op = "add_layer"
    /\ last.res = "ok"
    /\ Len(heap[last.lid].features) = 1
    /\ Holders(last.lid) = 1
    /\ \E l \in detached : l # last.lid

\* C12: into_layer appends the feature's record, as it is at the call, as the
\* last feature of the owned layer, changes nothing else of the layer and hands
\* the layer back to the caller; no other operation changes the number of
\* features of a layer.
C12_IntoLayerAppendsFeature ==
    [][/\ IsCall("into_layer") =>
             LET l == last'.lid
             IN /\ l \in DOMAIN building
                /\ heap'[l] = [heap[l] EXCEPT !.features = Append(@, building[l])]
                /\ Len(heap'[l].features) = Len(heap[l].features) + 1
                /\ l \in detached'
                /\ l \notin DOMAIN building'
       /\ ~IsCall("into_layer") =>
             \A l \in DOMAIN heap \cap DOMAIN heap' :
                 Len(heap'[l].features) = Len(heap[l].features)]_vars

\* C12 witness: a second feature, with an id and a tag, was committed after a
\* first one that differs from it.
C12_Witness ==
    /\ last.op = "into_layer"
    /\ Len(heap[last.lid].features) = 2
    /\ heap[last.lid].features[2].has_id
    /\ Len(heap[last.lid].features[2].tags) = 2
    /\ heap[last.lid].features[1] # heap[last.lid].features[2]

\* C13: create_layer(name) on a tile makes a new detached layer with version 2,
\* the name given, the extent of that tile and no keys, values or features; the
\* tile, and every other tile and layer, is unchanged, and the new layer is in
\* no tile's sequence.
C13_CreateLayer ==
    [][IsCall("create_layer") =>
          LET l == last'.lid
              t == last'.tile
          IN /\ l \notin DOMAIN heap
             /\ heap'[l] = [version |-> 2, name |-> last'.name,
                            extent |-> tiles[t].extent,
                            keys |-> <<>>, values |-> <<>>, features |-> <<>>]
             /\ l \in detached'
             /\ l \notin DOMAIN building'
             /\ tiles' = tiles
             /\ \A u \in DOMAIN tiles' : \A i \in 1..Len(tiles'[u].layers) :
                   tiles'[u].layers[i] # l
             /\ \A k \in DOMAIN heap : heap'[k] = heap[k]]_vars

\* C13 witness: a layer was created by the second of two tiles of different
\* extents.
C13_Witness ==
    /\ last.op = "create_layer"
    /\ last.tile = 2
    /\ tiles[1].extent # tiles[2].extent
    /\ heap[last.lid].extent = tiles[2].extent
    /\ last.lid \in detached

\* C14: the bytes a successful to_bytes returns are exactly compute_size() many,
\* and the value a compute_size call returned is what compute_size returns as
\* long as no call has changed anything since.
C14_ToBytesLenIsComputeSize ==
    /\ (last.op = "to_bytes" /\ last.res = "ok") =>
           last.size = VecTile_compute_size(VecTile(last.tile))
    /\ last.op = "compute_size" => last.size = Len(VecTile_write(VecTile(last.tile)))

\* C14 witness: to_bytes of a tile that holds a layer with a feature that has
\* an id and a tag.
C14_Witness ==
    /\ last.op = "to_bytes"
    /\ last.size > 0
    /\ Len(tiles[last.tile].layers) = 1
    /\ Len(VecTile(last.tile)[1].features) = 1
    /\ VecTile(last.tile)[1].features[1].has_id
    /\ Len(VecTile(last.tile)[1].features[1].tags) = 2

\* The in-progress feature that owns layer l in b, if any.
Pending(b, l) == IF l \in DOMAIN b THEN <<b[l]>> ELSE <<>>

\* The tag lists of the committed features of a layer, then of the pending one.
AllTags(layer, pending) ==
    Flatten([i \in 1..Len(layer.features) |-> layer.features[i].tags])
    \o Flatten([i \in 1..Len(pending) |-> pending[i].tags])

\* The key and the value that each tag pair of a layer denotes, in the order
\* the pairs were recorded.
Denoted(layer, pending) ==
    LET tags == AllTags(layer, pending)
    IN [i \in 1..(Len(tags) \div 2) |->
           <<layer.keys[tags[2 * i - 1] + 1], layer.values[tags[2 * i] + 1]>>]

IsPrefix(a, b) == Len(a) <= Len(b) /\ SubSeq(b, 1, Len(a)) = a

AtMostOneAppended(a, b) == b = a \/ (Len(b) = Len(a) + 1 /\ SubSeq(b, 1, Len(a)) = a)

\* C15: in every step, each dictionary of a layer that stays alive is left as
\* it was or gets exactly one entry appended at its end, so every entry keeps
\* its index and every tag pair recorded so far keeps denoting the same key
\* and value.
C15_DictionaryIndicesAreStable ==
    [][\A l \in DOMAIN heap \cap DOMAIN heap' :
          /\ AtMostOneAppended(heap[l].keys, heap'[l].keys)
          /\ AtMostOneAppended(heap[l].values, heap'[l].values)
          /\ IsPrefix(Denoted(heap[l], Pending(building, l)),
                      Denoted(heap'[l], Pending(building', l)))]_vars

\* C15 witness: a second key and a second value have been appended after a
\* feature tagged with the first ones was committed.
C15_Witness ==
    \E l \in DOMAIN building :
        /\ Len(heap[l].keys) = 2
        /\ Len(heap[l].values) = 2
        /\ Len(heap[l].features) = 1
        /\ heap[l].features[1].tags = <<0, 0>>
        /\ building[l].tags = <<1, 1>>

\* C16: the tag list of every feature, committed or in progress, is twice as
\* long as the number of add_tag_* calls made on that feature.
C16_TagsAreTwiceTheCalls ==
    \A l \in DOMAIN heap :
        /\ \A i \in 1..Len(heap[l].features) :
               Len(heap[l].features[i].tags) = 2 * tagCalls[l][i]
        /\ l \in DOMAIN building =>
               Len(building[l].tags) = 2 * tagCalls[l][Len(tagCalls[l])]

\* C16 witness: a committed feature that got two add_tag_* calls and a feature
\* in progress that got none.
C16_Witness ==
    \E l \in DOMAIN building :
        /\ Len(heap[l].features) = 1
        /\ tagCalls[l] = <<2, 0>>
        /\ Len(heap[l].features[1].tags) = 4
        /\ building[l].tags = <<>>

\* C17: every tag pair of every feature of a layer, committed or in progress,
\* holds a key index below the number of keys and a value index below the
\* number of values of that layer.
C17_TagPairsReferenceEntries ==
    \A l \in DOMAIN heap :
        LET tags == AllTags(heap[l], Pending(building, l))
        IN \A i \in 1..Len(tags) :
              IF i % 2 = 1 THEN tags[i] < Len(heap[l].keys)
              ELSE tags[i] < Len(heap[l].values)

\* C17 witness: a committed feature and the feature in progress both hold a
\* pair, and the layer has two values.
C17_Witness ==
    \E l \in DOMAIN building :
        /\ Len(heap[l].features) = 1
        /\ Len(heap[l].features[1].tags) = 2
        /\ Len(building[l].tags) = 2
        /\ building[l].tags[2] = 1
        /\ Len(heap[l].values) = 2

\* C20: every index of a layer's key dictionary and of its value dictionary
\* is held by a tag pair of a feature committed to the layer or of the feature
\* in progress that owns it.
C20_NoOrphanedEntry ==
    \A l \in DOMAIN heap :
        LET tags == AllTags(heap[l], Pending(building, l))
        IN /\ \A k \in 0..(Len(heap[l].keys) - 1) :
                 \E i \in 1..Len(tags) : i % 2 = 1 /\ tags[i] = k
           /\ \A v \in 0..(Len(heap[l].values) - 1) :
                 \E i \in 1..Len(tags) : i % 2 = 0 /\ tags[i] = v

\* C20 witness: a layer handed back by into_layer whose two keys and two values
\* are held by committed features only.
C20_Witness ==
    /\ last.op = "into_layer"
    /\ \E l \in detached :
          /\ Len(heap[l].keys) = 2
          /\ Len(heap[l].values) = 2
          /\ Len(heap[l].features) >= 1

\* C18 as stated: every layer stored in a tile has that tile's extent, also
\* when it was created by another tile.
C18_StoredExtentIsTilesExtent ==
    \A p \in Places : heap[tiles[p[1]].layers[p[2]]].extent = tiles[p[1]].extent

\* C18, amended: every layer stored in a tile has the extent of the tile whose
\* create_layer made it; add_layer compares names only, so this is the storing
\* tile's extent only if the two tiles have the same extent.
C18_StoredExtentIsCreatorsExtent ==
    \A p \in Places :
        LET l == tiles[p[1]].layers[p[2]]
        IN heap[l].extent = tiles[origin[l]].extent

\* C18 witness: a layer created by one tile is stored in a tile of another
\* extent.
C18_Witness ==
    \E p \in Places :
        LET l == tiles[p[1]].layers[p[2]]
        IN /\ origin[l] # p[1]
           /\ tiles[origin[l]].extent # tiles[p[1]].extent
           /\ heap[l].extent # tiles[p[1]].extent

\* C19: a layer stored in a tile stays at its place with the same name,
\* extent, keys, values and features in every step, and no layer value or
\* feature in progress leads to it, so nothing can be added to it.
C19_StoredLayerIsFrozen ==
    [][\A p \in Places :
          LET t == p[1]
              i == p[2]
              l == tiles[t].layers[i]
          IN /\ i <= Len(tiles'[t].layers)
             /\ tiles'[t].layers[i] = l
             /\ l \in DOMAIN heap'
             /\ heap'[l] = heap[l]
             /\ l \notin detached'
             /\ l \notin DOMAIN building']_vars

\* C19 witness: a stored layer with a feature, while a feature of another
\* layer has just got a tag.
C19_Witness ==
    /\ last.op \in AddTagOps
    /\ \E p \in Places :
          /\ tiles[p[1]].layers[p[2]] # last.lid
          /\ Len(heap[tiles[p[1]].layers[p[2]]].features) = 1
====
